---- MODULE Spec2Model ----
(***************************************************************************)
(* Model of src/parallel_query_processor.py: ParallelQueryProcessor and    *)
(* main().  The processor opens an asyncpg pool, loads the active periods, *)
(* and runs them twice through process_all_periods_parallel (first one     *)
(* query per period, then one query per batch of periods), each run being  *)
(* a fan-out of coroutines under an asyncio.Semaphore and a fan-in by      *)
(* asyncio.gather(return_exceptions=True).                                  *)
(*                                                                         *)
(* Python's Optional[x] is modelled as a sequence: None is <<>> and a      *)
(* present value v is <<v>>.  Times are ticks of the event loop's clock.   *)
(* The interpreter modelled is Python >= 3.8, where asyncio.CancelledError *)
(* derives from BaseException and not from Exception.                      *)
(***************************************************************************)
EXTENDS Integers, Sequences, FiniteSets

\* ------------------------------------------------------------------ bounds
\* Largest number of DONE rows bench.active_periods returns.
MaxPeriods == 3
\* Largest max_connections a processor is constructed with.
MaxConnections == 2
\* Largest batch_size a processor is constructed with.
MaxBatchSize == 2
\* Ticks of the event loop's clock during one dispatch run.
MaxClock == 1
\* Largest time in a row of the tables the queries are tried against.
MaxTime == 2

\* --------------------------------------------------------------- constants
\* asyncpg.create_pool(min_size=2, ...)
MinPoolSize == 2
\* duration_ms = (time() - start_time) * 1000
MsPerSecond == 1000

None == <<>>
Some(v) == <<v>>

VARIABLES
    table,            \* the rows of bench.active_periods
    pc,               \* main(): "connect", "load", "approach1", "approach2", "gather",
                      \*         "summary", "exit", "fatal"
    max_connections,  \* self.max_connections
    batch_size,       \* self.batch_size
    pool,             \* self.pool: "none", "open", "closed"
    pool_held,        \* connections of the pool currently acquired
    periods,          \* the list main() loaded
    use_batching,     \* argument of the last process_all_periods_parallel call
    tasks,            \* per coroutine, the periods it was made for: one, or a batch
    tpc,              \* per task: "pending", "acquiring", "querying", "releasing", "done"
    semaphore,        \* value of the asyncio.Semaphore of the run
    start_time,       \* per task: the local start_time (None before the body runs)
    fetched,          \* per task: how its awaited call ended: "none", "rows", "timeout", "error"
    task_result,      \* per task: the result or exception of bounded_task(task)
    final_results,    \* what process_all_periods_parallel returned
    printed,          \* how many summaries print_summary has printed
    summary,          \* the numbers of the summary printed last (None before)
    clock,            \* asyncio.get_event_loop().time(), ticks since the run began
    slot_at,          \* history: per task, the clock when it got its semaphore slot
    done_at,          \* history: per task, the clock when bounded_task finished
    overtaken,        \* history: a task finished while an earlier one of the list had not
    conn_acquired,    \* history: per task, how many connections it acquired
    conn_released     \* history: per task, how many connections it gave back

vars == << table, pc, max_connections, batch_size, pool, pool_held, periods, use_batching,
           tasks, tpc, semaphore, start_time, fetched, task_result, final_results,
           printed, summary, clock, slot_at, done_at, overtaken,
           conn_acquired, conn_released >>

\* ----------------------------------------------------------------- database
\* The rows bench.active_periods holds when main() runs.  Row k covers [2^(k-1)-1, 2^k-1): the rows
\* are disjoint in time and row k is 2^(k-1) ticks long.  Every fourth row is
\* not DONE; row 2 has a NULL start_time.
TableRows == MaxPeriods + (MaxPeriods \div 4) + 1
NullStartRows == {2}

ActivePeriod(sensor_id, start_t, end_t, period_id) ==
    [sensor_id |-> sensor_id, start_time |-> start_t, end_time |-> end_t,
     period_id |-> period_id]

PeriodRow(k) ==
    [id |-> k,
     sensor_id |-> 1 + (k % 2),
     start_time |-> IF k \in NullStartRows THEN None ELSE Some(2^(k-1) - 1),
     end_time |-> Some(2^k - 1),
     status |-> IF k % 4 = 0 THEN "OPEN" ELSE "DONE"]

ActivePeriodsTable == [k \in 1..TableRows |-> PeriodRow(k)]

\* Rows of bench.sensor_data: one measurement per sensor and tick.
SensorData == [sensor_id : 1..2, measurement_time : 0..(2^TableRows - 1)]

\* SQL comparisons against a bound parameter or column that may be NULL:
\* a comparison with NULL is not true, so the row is not selected.
SqlGe(t, opt) == opt # None /\ t >= opt[1]

\* An upper bound that is part of the interval.
SqlLe(t, opt) == opt # None /\ t <= opt[1]

SqlLt(t, opt) == opt # None /\ t < opt[1]

\* FROM bench.sensor_data s JOIN bench.active_periods p ON s.sensor_id =
\* p.sensor_id AND s.measurement_time >= p.start_time AND s.measurement_time
\* < p.end_time ... AND p.status = 'DONE': the joined rows, as pairs <<s, id>>.
JoinedRows ==
    { sp \in SensorData \X DOMAIN table :
        LET s == sp[1]
            p == table[sp[2]]
        IN  /\ s.sensor_id = p.sensor_id
            /\ SqlGe(s.measurement_time, p.start_time)
            /\ SqlLt(s.measurement_time, p.end_time)
            /\ p.status = "DONE" }

\* The rows the query of query_single_period returns for $1, $2, $3.
SinglePeriodRows(period) ==
    { sp \in JoinedRows :
        /\ sp[1].sensor_id = period.sensor_id
        /\ SqlGe(sp[1].measurement_time, period.start_time)
        /\ SqlLt(sp[1].measurement_time, period.end_time) }

SetMin(S) == CHOOSE x \in S : \A y \in S : x <= y
SetMax(S) == CHOOSE x \in S : \A y \in S : x >= y
Range(seq) == { seq[i] : i \in DOMAIN seq }

\* Building the text of the batch query calls p.start_time.isoformat() and
\* p.end_time.isoformat() on every period, before the try block: a period
\* with a None bound raises AttributeError there.
BatchBuildRaises(batch) ==
    \E p \in Range(batch) : p.start_time = None \/ p.end_time = None

BuildErrorText == "'NoneType' object has no attribute 'isoformat'"

\* min_time, max_time of query_batch_periods (the bounds are present here).
BatchMinTime(batch) == SetMin({ p.start_time[1] : p \in Range(batch) })

\* A max_time taken over the start times.
BatchMaxTimeOfStarts(batch) == SetMax({ p.start_time[1] : p \in Range(batch) })

BatchMaxTime(batch) == SetMax({ p.end_time[1] : p \in Range(batch) })

\* f"{p.sensor_id}" and p.start_time.isoformat(): the decimal text of an
\* integer and the text of a time (a tick), as the sequence of its digits.
FormatInt(n) == << n \div 10, n % 10 >>

\* A text that keeps the leading digits of the time only.
IsoFormatTruncated(t) == << t \div 10, 0 >>

IsoFormat(t) == << t \div 10, t % 10 >>

\* The value the backend reads from a literal of the query text.
ParseLiteral(text) == 10 * text[1] + text[2]

\* or_conditions: per period of the batch, the three values the f-string
\* writes into the clause "(s.sensor_id = .. AND s.measurement_time >= '..'
\* AND s.measurement_time < '..')".
OrConditions(batch) ==
    [i \in DOMAIN batch |->
        [sensor_id |-> FormatInt(batch[i].sensor_id),
         start_time |-> IsoFormat(batch[i].start_time[1]),
         end_time |-> IsoFormat(batch[i].end_time[1])]]

\* The text of the query of query_batch_periods: the clauses joined by OR
\* between the fixed head and tail of the f-string.
BatchQueryText(batch) ==
    [head |-> "SELECT .. FROM bench.sensor_data s JOIN bench.active_periods p .. WHERE (",
     or_conditions |-> OrConditions(batch),
     tail |-> ") AND s.measurement_time >= $1 AND s.measurement_time < $2 AND p.status = 'DONE'"]

\* The arguments conn.fetch binds to $1 and $2 of the batch query.
BatchQueryParams(batch) == << BatchMinTime(batch), BatchMaxTime(batch) >>

\* The text of the query of query_single_period, a literal of the source, and
\* the arguments conn.fetch binds to $1, $2 and $3.
SinglePeriodQueryText(period) ==
    [head |-> "SELECT .. FROM bench.sensor_data s JOIN bench.active_periods p .. WHERE ",
     or_conditions |-> << >>,
     tail |-> "s.sensor_id = $1 AND s.measurement_time >= $2 AND s.measurement_time < $3 AND p.status = 'DONE'"]

SinglePeriodQueryParams(period) ==
    << period.sensor_id, period.start_time, period.end_time >>

\* The rows the query of query_batch_periods returns: the OR of one clause
\* per period, read from the text, and the bounds $1 = min_time, $2 =
\* max_time.
BatchRows(batch) ==
    { sp \in JoinedRows :
        /\ \E c \in Range(OrConditions(batch)) :
              /\ sp[1].sensor_id = ParseLiteral(c.sensor_id)
              /\ sp[1].measurement_time >= ParseLiteral(c.start_time)
              /\ sp[1].measurement_time < ParseLiteral(c.end_time)
        /\ sp[1].measurement_time >= BatchQueryParams(batch)[1]
        /\ sp[1].measurement_time < BatchQueryParams(batch)[2] }

\* get_active_periods: the first `limit` rows WHERE status = 'DONE', as
\* ActivePeriod objects.
RECURSIVE DoneRows(_)
DoneRows(k) ==
    IF k = 0 THEN << >>
    ELSE IF table[k].status = "DONE"
         THEN Append(DoneRows(k - 1), table[k])
         ELSE DoneRows(k - 1)

LoadedPeriods(limit) ==
    LET rows == DoneRows(Len(table))
        n == IF limit < Len(rows) THEN limit ELSE Len(rows)
    IN  [i \in 1..n |-> ActivePeriod(rows[i].sensor_id, rows[i].start_time,
                                     rows[i].end_time, Some(rows[i].id))]

\* ------------------------------------------------------------------ results
\* An element of the list gather returns: a QueryResult, or the exception a
\* task raised.  `kind` is the Python class of the object.
QueryResult(period, row_count, duration_ms, success, error) ==
    [kind |-> "QueryResult", period |-> period, row_count |-> row_count,
     duration_ms |-> duration_ms, success |-> success, error |-> error]

Raised(class, text) ==
    [kind |-> class, period |-> None, row_count |-> 0, duration_ms |-> 0,
     success |-> FALSE, error |-> Some(text)]

NoResult == [kind |-> "none", period |-> None, row_count |-> 0, duration_ms |-> 0,
             success |-> FALSE, error |-> None]

\* isinstance(result, Exception): CancelledError is a BaseException only.
IsException(result) == result.kind = "Exception"

\* What conn.fetch can end with: rows, or an exception.  Every exception of
\* the fetch takes the same path; the one modelled is the command timeout,
\* asyncio.TimeoutError, whose str() is the empty string.  "error" is the
\* exception of pool.acquire().
FetchEnds == {"rows", "timeout"}
ErrorText(how) == IF how = "timeout" THEN "" ELSE "backend error"

\* A split that drops the last batch when it is not full.
BatchesFullOnly(ps, size) ==
    [b \in 1..(Len(ps) \div size) |-> SubSeq(ps, (b - 1) * size + 1, b * size)]

\* periods[i:i + batch_size] for i in range(0, len(periods), batch_size)
Batches(ps, size) ==
    [b \in 1..((Len(ps) + size - 1) \div size) |->
        SubSeq(ps, (b - 1) * size + 1,
               IF b * size < Len(ps) THEN b * size ELSE Len(ps))]

\* ---------------------------------------------------------------- the tasks
TaskIds == DOMAIN tasks

\* duration_ms = (asyncio.get_event_loop().time() - start_time) * 1000
DurationMs(start, now) == (now - start) * MsPerSecond

\* A query_single_period whose handler lets the exception of the fetch out.
QuerySinglePeriodReraises(period, how, start, now) ==
    IF how = "rows"
    THEN QueryResult(Some(period), Cardinality(SinglePeriodRows(period)),
                     DurationMs(start, now), TRUE, None)
    ELSE Raised("Exception", ErrorText(how))

\* query_single_period from the end of the fetch on: the QueryResult of the
\* try block, or the one of `except Exception`.
QuerySinglePeriodReturn(period, how, start, now) ==
    IF how = "rows"
    THEN QueryResult(Some(period), Cardinality(SinglePeriodRows(period)),
                     DurationMs(start, now), TRUE, None)
    ELSE QueryResult(Some(period), 0, DurationMs(start, now), FALSE,
                     Some(ErrorText(how)))

\* query_batch_periods from the end of the fetch on.
QueryBatchPeriodsReturn(batch, how, start, now) ==
    IF how = "rows"
    THEN QueryResult(None, Cardinality(BatchRows(batch)),
                     DurationMs(start, now), TRUE, None)
    ELSE QueryResult(None, 0, DurationMs(start, now), FALSE,
                     Some(ErrorText(how)))

\* `if not periods: return QueryResult(period=None, row_count=0, ...)`
EmptyBatchResult == QueryResult(None, 0, 0, TRUE, None)

TaskReturn(i, how, now) ==
    IF use_batching
    THEN QueryBatchPeriodsReturn(tasks[i], how, start_time[i][1], now)
    ELSE QuerySinglePeriodReturn(tasks[i][1], how, start_time[i][1], now)

\* A semaphore that lets one task too many in.
SemaphoreFreeOffByOne == semaphore >= 0

\* `async with semaphore` lets a task in while the value is positive.
SemaphoreFree == semaphore > 0

\* A start_time read when the coroutine is created instead.
BodyStartTimeAtCreation(created, now) == created

\* The local start_time of the coroutine body, which runs once bounded_task
\* holds its slot: `created` is the clock when the coroutines were made.
BodyStartTime(created, now) == now

\* A slot that is given back only by a task that returns a successful result.
SemaphoreAfterLeaky(result, held_slot) ==
    IF held_slot /\ result.success THEN semaphore + 1 ELSE semaphore

\* Leaving `async with semaphore`, by return or by exception, gives the slot
\* back.
SemaphoreAfter(result, held_slot) ==
    IF held_slot THEN semaphore + 1 ELSE semaphore

\* The task finishes: its result is set, its slot is given back.
Finish(i, result, held_slot) ==
    /\ task_result' = [task_result EXCEPT ![i] = result]
    /\ tpc' = [tpc EXCEPT ![i] = "done"]
    /\ done_at' = [done_at EXCEPT ![i] = Some(clock)]
    /\ overtaken' = (overtaken \/ \E j \in TaskIds : j < i /\ tpc[j] # "done")
    /\ semaphore' = SemaphoreAfter(result, held_slot)

unchanged_main == << table, pc, max_connections, batch_size, pool, periods, use_batching,
                     tasks, final_results, printed, summary >>

unfinished == << task_result, done_at, overtaken >>

\* bounded_task(task) enters `async with semaphore` and awaits the coroutine,
\* whose body runs up to its first suspension: the batch query is built (and
\* may raise, outside any try), start_time is read, pool.acquire() is awaited.
StartTask(i) ==
    /\ pc = "gather"
    /\ tpc[i] = "pending"
    /\ SemaphoreFree
    /\ slot_at' = [slot_at EXCEPT ![i] = Some(clock)]
    /\ IF use_batching /\ tasks[i] = << >>
       THEN /\ Finish(i, EmptyBatchResult, FALSE)
            /\ UNCHANGED start_time
       ELSE IF use_batching /\ BatchBuildRaises(tasks[i])
       THEN /\ Finish(i, Raised("Exception", BuildErrorText), FALSE)
            /\ UNCHANGED start_time
       ELSE /\ semaphore' = semaphore - 1
            /\ start_time' = [start_time EXCEPT ![i] = Some(BodyStartTime(0, clock))]
            /\ tpc' = [tpc EXCEPT ![i] = "acquiring"]
            /\ UNCHANGED unfinished
    /\ UNCHANGED << unchanged_main, pool_held, fetched, clock, conn_acquired,
                    conn_released >>

\* A task that takes its connection before it has its semaphore slot.
AcquireConnBeforeSlot(i) ==
    /\ pc = "gather"
    /\ tpc[i] \in {"pending", "acquiring"}
    /\ pool_held < max_connections
    /\ pool_held' = pool_held + 1
    /\ conn_acquired' = [conn_acquired EXCEPT ![i] = @ + 1]
    /\ tpc' = [tpc EXCEPT ![i] = "querying"]
    /\ UNCHANGED << unchanged_main, unfinished, semaphore, start_time, fetched,
                    clock, slot_at, conn_released >>

\* `async with self.pool.acquire() as conn` gets a connection of the pool.
AcquireConn(i) ==
    /\ pc = "gather"
    /\ tpc[i] = "acquiring"
    /\ pool_held < max_connections
    /\ pool_held' = pool_held + 1
    /\ conn_acquired' = [conn_acquired EXCEPT ![i] = @ + 1]
    /\ tpc' = [tpc EXCEPT ![i] = "querying"]
    /\ UNCHANGED << unchanged_main, unfinished, semaphore, start_time, fetched,
                    clock, slot_at, conn_released >>

\* pool.acquire() raises (the pool cannot open another connection): caught
\* by `except Exception` of the task.
AcquireFails(i) ==
    /\ pc = "gather"
    /\ tpc[i] = "acquiring"
    /\ fetched' = [fetched EXCEPT ![i] = "error"]
    /\ Finish(i, TaskReturn(i, "error", clock), TRUE)
    /\ UNCHANGED << unchanged_main, pool_held, start_time, clock, slot_at,
                    conn_acquired, conn_released >>

\* conn.fetch ends: with rows, with a backend error or with the timeout.
\* The `async with` then awaits the release of the connection.
FetchEnd(i, how) ==
    /\ pc = "gather"
    /\ tpc[i] = "querying"
    /\ fetched' = [fetched EXCEPT ![i] = how]
    /\ tpc' = [tpc EXCEPT ![i] = "releasing"]
    /\ UNCHANGED << unchanged_main, unfinished, pool_held, semaphore, start_time,
                    clock, slot_at, conn_acquired, conn_released >>

\* A task that gives its connection back only when the fetch returned rows.
ReleaseConnOnSuccessOnly(i) ==
    /\ pc = "gather"
    /\ tpc[i] = "releasing"
    /\ pool_held' = IF fetched[i] = "rows" THEN pool_held - 1 ELSE pool_held
    /\ conn_released' = IF fetched[i] = "rows"
                        THEN [conn_released EXCEPT ![i] = @ + 1]
                        ELSE conn_released
    /\ Finish(i, TaskReturn(i, fetched[i], clock), TRUE)
    /\ UNCHANGED << unchanged_main, start_time, fetched, clock, slot_at,
                    conn_acquired >>

\* The connection is back in the pool; the task computes duration_ms and
\* returns its QueryResult, and bounded_task leaves `async with semaphore`.
ReleaseConn(i) ==
    /\ pc = "gather"
    /\ tpc[i] = "releasing"
    /\ pool_held' = pool_held - 1
    /\ conn_released' = [conn_released EXCEPT ![i] = @ + 1]
    /\ Finish(i, TaskReturn(i, fetched[i], clock), TRUE)
    /\ UNCHANGED << unchanged_main, start_time, fetched, clock, slot_at,
                    conn_acquired >>

\* Something cancels the asyncio Task gather made of bounded_task(task) while
\* it is suspended: CancelledError is raised at its await, passes `except
\* Exception`, and the `async with` blocks give back connection and slot.
CancelTask(i) ==
    /\ pc = "gather"
    /\ tpc[i] \in {"pending", "acquiring", "querying"}
    /\ pool_held' = IF tpc[i] = "querying" THEN pool_held - 1 ELSE pool_held
    /\ conn_released' = IF tpc[i] = "querying"
                        THEN [conn_released EXCEPT ![i] = @ + 1]
                        ELSE conn_released
    /\ Finish(i, Raised("CancelledError", ""), tpc[i] # "pending")
    /\ UNCHANGED << unchanged_main, start_time, fetched, clock, slot_at,
                    conn_acquired >>

\* The clock of the event loop advances while tasks are suspended.
Tick ==
    /\ pc = "gather"
    /\ clock < MaxClock
    /\ \E i \in TaskIds : tpc[i] \in {"acquiring", "querying", "releasing"}
    /\ clock' = clock + 1
    /\ UNCHANGED << unchanged_main, unfinished, pool_held, tpc, semaphore,
                    start_time, fetched, slot_at, conn_acquired,
                    conn_released >>

\* ----------------------------------------------------------- the dispatcher
\* Batches that begin at every index: range(0, len(periods)) without the step.
MakeTasksSliding(ps, batching, size) ==
    IF batching
    THEN [b \in DOMAIN ps |->
             SubSeq(ps, b, IF b + size - 1 < Len(ps) THEN b + size - 1 ELSE Len(ps))]
    ELSE [i \in DOMAIN ps |-> << ps[i] >>]

\* tasks = [self.query_batch_periods(batch) for batch in batches], or
\* tasks = [self.query_single_period(period) for period in periods]
MakeTasks(ps, batching, size) ==
    IF batching THEN Batches(ps, size) ELSE [i \in DOMAIN ps |-> << ps[i] >>]

\* process_all_periods_parallel up to the gather: the coroutines are made
\* (none runs yet), the semaphore is created, gather schedules one
\* bounded_task per coroutine.
Dispatch(batching) ==
    /\ pc = IF batching THEN "approach2" ELSE "approach1"
    /\ use_batching' = batching
    /\ LET ts == MakeTasks(periods, batching, batch_size)
       IN  /\ tasks' = ts
           /\ tpc' = [i \in DOMAIN ts |-> "pending"]
           /\ start_time' = [i \in DOMAIN ts |-> None]
           /\ fetched' = [i \in DOMAIN ts |-> "none"]
           /\ task_result' = [i \in DOMAIN ts |-> NoResult]
           /\ slot_at' = [i \in DOMAIN ts |-> None]
           /\ done_at' = [i \in DOMAIN ts |-> None]
           /\ overtaken' = FALSE
           /\ conn_acquired' = [i \in DOMAIN ts |-> 0]
           /\ conn_released' = [i \in DOMAIN ts |-> 0]
    /\ semaphore' = max_connections
    /\ clock' = 0
    /\ final_results' = << >>
    /\ pc' = "gather"
    /\ summary' = None
    /\ UNCHANGED << table, max_connections, batch_size, pool, pool_held, periods, printed >>

\* results = await asyncio.gather(*[...], return_exceptions=True): the
\* results and exceptions of the children, in the order of the children.
GatherResults == [i \in TaskIds |-> task_result[i]]

\* A conversion that leaves the error of the failed QueryResult out.
HandleExceptionNoError(result) ==
    IF IsException(result)
    THEN QueryResult(None, 0, 0, FALSE, None)
    ELSE result

\* The loop over results: an Exception becomes a failed QueryResult.
HandleException(result) ==
    IF IsException(result)
    THEN QueryResult(None, 0, 0, FALSE, Some(result.error[1]))
    ELSE result

\* A loop that appends the results first and the converted exceptions last.
ConvertResultsFailuresLast(results) ==
    LET ok == SelectSeq(results, LAMBDA r : ~IsException(r))
        bad == SelectSeq(results, IsException)
    IN  ok \o [i \in DOMAIN bad |-> HandleException(bad[i])]

\* final_results: one element per element of results, in the same order.
ConvertResults(results) == [i \in DOMAIN results |-> HandleException(results[i])]

\* A wait that returns as soon as one child is done.
GatherReturnsFirstCompleted ==
    /\ pc = "gather"
    /\ \E i \in TaskIds : tpc[i] = "done"
    /\ final_results' = ConvertResults(GatherResults)
    /\ pc' = "summary"
    /\ UNCHANGED << table, max_connections, batch_size, pool, pool_held, periods,
                    use_batching, tasks, tpc, semaphore, start_time, fetched,
                    task_result, printed, summary, clock, slot_at, done_at,
                    overtaken, conn_acquired, conn_released >>

\* gather returns once every child is done; the results are converted and
\* process_all_periods_parallel returns final_results.
GatherReturns ==
    /\ pc = "gather"
    /\ \A i \in TaskIds : tpc[i] = "done"
    /\ final_results' = ConvertResults(GatherResults)
    /\ pc' = "summary"
    /\ UNCHANGED << table, max_connections, batch_size, pool, pool_held, periods,
                    use_batching, tasks, tpc, semaphore, start_time, fetched,
                    task_result, printed, summary, clock, slot_at, done_at,
                    overtaken, conn_acquired, conn_released >>

\* ------------------------------------------------------------ print_summary
RECURSIVE SumOver(_, _, _)
SumOver(results, field, n) ==
    IF n = 0 THEN 0
    ELSE SumOver(results, field, n - 1)
         + (IF results[n].success THEN results[n][field] ELSE 0)

\* A print_summary that divides and takes min and max without looking
\* whether anything succeeded.
SummaryUnguarded(results) ==
    LET successful == { i \in DOMAIN results : results[i].success }
        failed == { i \in DOMAIN results : ~results[i].success }
        total_duration == SumOver(results, "duration_ms", Len(results))
    IN  [total |-> Len(results),
         successful |-> Cardinality(successful),
         failed |-> Cardinality(failed),
         total_rows |-> SumOver(results, "row_count", Len(results)),
         total_duration |-> total_duration,
         avg_duration |-> << total_duration, Cardinality(successful) >>,
         min_duration |-> Some(0),
         max_duration |-> Some(0)]

\* The numbers print_summary prints.  avg_duration is total_duration /
\* len(successful), kept as the pair of its numerator and denominator, and 0
\* when nothing succeeded; min and max are printed only when something did.
Summary(results) ==
    LET successful == { i \in DOMAIN results : results[i].success }
        failed == { i \in DOMAIN results : ~results[i].success }
        total_duration == SumOver(results, "duration_ms", Len(results))
    IN  [total |-> Len(results),
         successful |-> Cardinality(successful),
         failed |-> Cardinality(failed),
         total_rows |-> SumOver(results, "row_count", Len(results)),
         total_duration |-> total_duration,
         avg_duration |-> IF successful # {}
                          THEN << total_duration, Cardinality(successful) >>
                          ELSE << 0, 1 >>,
         min_duration |-> IF successful # {}
                          THEN Some(SetMin({ results[i].duration_ms : i \in successful }))
                          ELSE None,
         max_duration |-> IF successful # {}
                          THEN Some(SetMax({ results[i].duration_ms : i \in successful }))
                          ELSE None]

\* `r.success` on an element that is no QueryResult raises AttributeError.
SummaryRaises(results) == \E i \in DOMAIN results : results[i].kind # "QueryResult"

\* ------------------------------------------------------------------- main()
\* connect(): asyncpg.create_pool succeeds.  It refuses max_size < min_size.
ConnectOk ==
    /\ pc = "connect"
    /\ max_connections >= MinPoolSize
    /\ pool' = "open"
    /\ pc' = "load"
    /\ UNCHANGED << table, max_connections, batch_size, pool_held, periods, use_batching,
                    tasks, tpc, semaphore, start_time, fetched, task_result,
                    final_results, printed, summary, clock, slot_at, done_at,
                    overtaken, conn_acquired, conn_released >>

\* A connect() that logs its failure and returns.
ConnectFailsSwallowed ==
    /\ pc = "connect"
    /\ pc' = "load"
    /\ UNCHANGED << table, max_connections, batch_size, pool, pool_held, periods,
                    use_batching, tasks, tpc, semaphore, start_time, fetched,
                    task_result, final_results, printed, summary, clock, slot_at,
                    done_at, overtaken, conn_acquired, conn_released >>

\* connect() raises (unreachable backend, refused sizes): __aenter__ raises,
\* main() raises, and the handler of __main__ logs "Fatal error".
ConnectFails ==
    /\ pc = "connect"
    /\ pc' = "fatal"
    /\ UNCHANGED << table, max_connections, batch_size, pool, pool_held, periods,
                    use_batching, tasks, tpc, semaphore, start_time, fetched,
                    task_result, final_results, printed, summary, clock, slot_at,
                    done_at, overtaken, conn_acquired, conn_released >>

\* get_active_periods(limit=...) returns; main() leaves (closing the pool)
\* when the list is empty.
GetActivePeriods(limit) ==
    /\ pc = "load"
    /\ periods' = LoadedPeriods(limit)
    /\ IF periods' = << >>
       THEN pc' = "exit" /\ pool' = "closed"
       ELSE pc' = "approach1" /\ pool' = pool
    /\ UNCHANGED << table, max_connections, batch_size, pool_held, use_batching, tasks,
                    tpc, semaphore, start_time, fetched, task_result,
                    final_results, printed, summary, clock, slot_at, done_at,
                    overtaken, conn_acquired, conn_released >>

\* The fetch of get_active_periods raises: the exception leaves `async with
\* processor`, which closes the pool, and main().
GetActivePeriodsFails ==
    /\ pc = "load"
    /\ pc' = "fatal"
    /\ pool' = "closed"
    /\ UNCHANGED << table, max_connections, batch_size, pool_held, periods, use_batching,
                    tasks, tpc, semaphore, start_time, fetched, task_result,
                    final_results, printed, summary, clock, slot_at, done_at,
                    overtaken, conn_acquired, conn_released >>

\* processor.print_summary(results), then the second approach or the end of
\* `async with processor`.
PrintSummary ==
    /\ pc = "summary"
    /\ IF SummaryRaises(final_results)
       THEN /\ pc' = "fatal"
            /\ pool' = "closed"
            /\ UNCHANGED << printed, summary >>
       ELSE /\ printed' = printed + 1
            /\ summary' = Some(Summary(final_results))
            /\ IF use_batching
               THEN pc' = "exit" /\ pool' = "closed"
               ELSE pc' = "approach2" /\ pool' = pool
    /\ UNCHANGED << table, max_connections, batch_size, pool_held, periods,
                    use_batching, tasks, tpc, semaphore, start_time, fetched,
                    task_result, final_results, clock, slot_at, done_at,
                    overtaken, conn_acquired, conn_released >>

\* ------------------------------------------------------------ specification
\* The processor main() constructs, before `async with processor`.
InitProcessor ==
    /\ pc = "connect"
    /\ max_connections \in 1..MaxConnections
    /\ batch_size \in 1..MaxBatchSize
    /\ pool = "none"
    /\ pool_held = 0
    /\ periods = << >>
    /\ use_batching = FALSE
    /\ tasks = << >>
    /\ tpc = << >>
    /\ semaphore = 0
    /\ start_time = << >>
    /\ fetched = << >>
    /\ task_result = << >>
    /\ final_results = << >>
    /\ printed = 0
    /\ summary = None
    /\ clock = 0
    /\ slot_at = << >>
    /\ done_at = << >>
    /\ overtaken = FALSE
    /\ conn_acquired = << >>
    /\ conn_released = << >>

Init ==
    /\ table = ActivePeriodsTable
    /\ InitProcessor

Next ==
    \/ ConnectOk
    \/ ConnectFails
    \/ \E limit \in 0..MaxPeriods : GetActivePeriods(limit)
    \/ GetActivePeriodsFails
    \/ \E batching \in BOOLEAN : Dispatch(batching)
    \/ \E i \in TaskIds : StartTask(i)
    \/ \E i \in TaskIds : AcquireConn(i)
    \/ \E i \in TaskIds : AcquireFails(i)
    \/ \E i \in TaskIds, how \in FetchEnds : FetchEnd(i, how)
    \/ \E i \in TaskIds : ReleaseConn(i)
    \/ \E i \in TaskIds : CancelTask(i)
    \/ GatherReturns
    \/ PrintSummary

\* The program with every reading of the clock giving the same instant.
Spec == Init /\ [][Next]_vars

\* The event loop runs every task that is ready, every awaited call of the
\* backend ends, and gather returns once its children are done.
Progress ==
    \/ \E i \in TaskIds : StartTask(i)
    \/ \E i \in TaskIds : AcquireConn(i)
    \/ \E i \in TaskIds, how \in FetchEnds : FetchEnd(i, how)
    \/ \E i \in TaskIds : ReleaseConn(i)
    \/ GatherReturns

FairSpec == Spec /\ WF_vars(Progress)

\* The program with time passing while tasks are suspended.
TimedNext == Next \/ Tick

TimedSpec == Init /\ [][TimedNext]_vars

\* Other contents of bench.active_periods: every table of two DONE rows with
\* 0 <= start_time <= end_time <= MaxTime, among them empty periods, periods
\* that overlap on one sensor and periods that do not.  The first row is of
\* sensor 1: the tables whose first row is of sensor 2 are these with the
\* two sensors renamed.
Tables ==
    LET rows == { [id |-> 0, sensor_id |-> sensor, start_time |-> Some(s),
                   end_time |-> Some(e), status |-> "DONE"] :
                     sensor \in 1..2, s \in 0..MaxTime, e \in 0..MaxTime }
        row(r, k) == [r EXCEPT !.id = k]
    IN  { << row(r1, 1), row(r2, 2) >> :
            r1 \in { r \in rows : r.start_time[1] <= r.end_time[1] /\ r.sensor_id = 1 },
            r2 \in { r \in rows : r.start_time[1] <= r.end_time[1] } }

\* The processor with the largest pool, and the batch sizes that split a
\* table of this length differently.
QueryInit ==
    /\ table \in Tables
    /\ InitProcessor
    /\ max_connections = MaxConnections
    /\ batch_size <= Len(table)

\* The program against every such table.
QuerySpec == QueryInit /\ [][Next]_vars

\* ===================================================================== claims
InFlight == { i \in TaskIds : tpc[i] \in {"acquiring", "querying", "releasing"} }
Returned == pc = "summary"

\* The WorkUnits of task i, from the list main() loaded: the i-th period, or
\* the i-th group of batch_size consecutive periods.
UnitsOf(i) ==
    IF use_batching
    THEN { k \in DOMAIN periods : (i - 1) * batch_size < k /\ k <= i * batch_size }
    ELSE { i }

\* C1: at every instant of a dispatch run, per-unit or batched, the tasks
\* that hold a semaphore slot and execute their query are at most
\* max_connections.
C1_ConcurrencyCeiling ==
    /\ Cardinality(InFlight) <= max_connections
    /\ pc = "gather" => semaphore = max_connections - Cardinality(InFlight)

\* C1 witness: the ceiling binds: max_connections tasks are in flight and
\* another one is still waiting for a slot.
C1_Witness ==
    /\ pc = "gather"
    /\ Cardinality(InFlight) = max_connections
    /\ \E i \in TaskIds : tpc[i] = "pending"

\* C2: a task whose query fails (the fetch raises or times out, the
\* connection cannot be acquired) ends with a failed QueryResult of its own,
\* made by its own handler; every task whose own query returns rows ends with
\* the successful QueryResult of its own units, whatever its siblings did;
\* the step in which a task fails changes no sibling and gives the slot back;
\* and a run returns only with every task that was not itself cancelled
\* started.
C2_StateAfterFailure ==
    \A i \in TaskIds :
        tpc[i] = "done" =>
            /\ fetched[i] \in {"timeout", "error"} =>
                  /\ task_result[i].kind = "QueryResult"
                  /\ ~task_result[i].success
                  /\ task_result[i].error = Some(ErrorText(fetched[i]))
                  /\ task_result[i].row_count = 0
                  /\ ~use_batching => task_result[i].period = Some(periods[i])
            /\ fetched[i] = "rows" =>
                  /\ task_result[i].kind = "QueryResult"
                  /\ task_result[i].success
                  /\ task_result[i].error = None
                  /\ task_result[i].row_count =
                        IF use_batching
                        THEN Cardinality(BatchRows([k \in 1..Cardinality(UnitsOf(i)) |->
                                 periods[(i - 1) * batch_size + k]]))
                        ELSE Cardinality(SinglePeriodRows(periods[i]))

C2_FailureStep ==
    \A i \in TaskIds :
        (tpc[i] # "done" /\ tpc'[i] = "done" /\ fetched'[i] \in {"timeout", "error"}) =>
            /\ \A j \in TaskIds \ {i} :
                  /\ tpc'[j] = tpc[j]
                  /\ task_result'[j] = task_result[j]
                  /\ start_time'[j] = start_time[j]
            /\ semaphore' = semaphore + 1
            /\ pc' = pc

C2_AllStarted ==
    Returned => \A i \in TaskIds :
                    slot_at[i] # None \/ task_result[i].kind = "CancelledError"

C2_FailureIsolation ==
    /\ [](C2_StateAfterFailure /\ C2_AllStarted)
    /\ [][C2_FailureStep]_vars

\* C2 witness: a run with more tasks than slots returned in which the query
\* of one task timed out, that of another could not get a connection, and a
\* sibling returned its rows.
C2_Witness ==
    /\ Returned
    /\ Len(tasks) > max_connections
    /\ \E i, j, k \in TaskIds :
          /\ fetched[i] = "timeout"
          /\ fetched[j] = "error"
          /\ fetched[k] = "rows"
          /\ final_results[k].success
          /\ final_results[k].row_count > 0

\* C3: the list process_all_periods_parallel returns has, at every position
\* i, the result of the i-th task (the i-th period, or the i-th batch),
\* whatever the order in which the tasks finished.
C3_Ordering ==
    Returned =>
        /\ DOMAIN final_results = TaskIds
        /\ \A i \in TaskIds :
              /\ final_results[i] = HandleException(task_result[i])
              /\ (~use_batching /\ fetched[i] # "none") =>
                    final_results[i].period = Some(periods[i])
              /\ (~use_batching /\ fetched[i] = "rows") =>
                    final_results[i].row_count = Cardinality(SinglePeriodRows(periods[i]))
              /\ (use_batching /\ fetched[i] = "rows") =>
                    final_results[i].row_count = Cardinality(BatchRows(tasks[i]))

\* C3 witness: a run returned whose tasks finished in another order than they
\* were submitted, with different results at two positions.
C3_Witness ==
    /\ Returned
    /\ overtaken
    /\ \E i, j \in TaskIds :
          /\ i < j
          /\ final_results[i] # final_results[j]
          /\ final_results[i].success
          /\ final_results[j].success

\* C4: every element of the list process_all_periods_parallel returns is a
\* QueryResult: whatever a task raised past its own handler, a cancellation
\* of that task included, is a failed QueryResult at the task's position.
C4_EveryElementIsOutcome ==
    Returned => \A i \in TaskIds : final_results[i].kind = "QueryResult"

\* The least q with q * d >= n.
CeilDiv(n, d) == CHOOSE q \in 0..n : q * d >= n /\ (q = 0 \/ (q - 1) * d < n)

\* C5: for a non-empty list of periods, the per-unit run returns len(periods)
\* results and the batched run ceil(len(periods) / batch_size), whichever
\* tasks succeed or fail.
C5_OutcomeCount ==
    Returned =>
        /\ Len(periods) > 0
        /\ Len(final_results) = IF use_batching
                                THEN CeilDiv(Len(periods), batch_size)
                                ELSE Len(periods)

\* C5 witness: a batched run returned whose last batch is not full, with a
\* failed and a successful result.
C5_Witness ==
    /\ Returned
    /\ use_batching
    /\ batch_size > 1
    /\ Len(periods) % batch_size # 0
    /\ Len(periods) > batch_size
    /\ \E i, j \in DOMAIN final_results :
          final_results[i].success /\ ~final_results[j].success

HoldsErrorIffFailed(r) == r.kind = "QueryResult" => (~r.success <=> r.error # None)

\* C6: every QueryResult there is (made by a task on success or on failure,
\* by the empty-batch shortcut, by the conversion of the dispatcher) has
\* success = False exactly when its error is present.
C6_ErrorIffFailed ==
    /\ \A i \in DOMAIN task_result : HoldsErrorIffFailed(task_result[i])
    /\ \A i \in DOMAIN final_results : HoldsErrorIffFailed(final_results[i])
    /\ HoldsErrorIffFailed(EmptyBatchResult)

\* C6 witness: one returned list holds a successful result, a failure made
\* by the task's own handler and a failure made by the dispatcher.
C6_Witness ==
    /\ Returned
    /\ \E i, j, k \in TaskIds :
          /\ final_results[i].success
          /\ fetched[j] = "timeout" /\ final_results[j].error = Some("")
          /\ IsException(task_result[k]) /\ final_results[k].kind = "QueryResult"

\* C7: with the pool established, under fair scheduling and with every
\* awaited backend call ending, a dispatch run that began returns, with one
\* element per task, a QueryResult for every task that was not cancelled.
C7_RunCompletes ==
    (pc = "gather") ~>
        (/\ Returned
         /\ Len(final_results) = Len(tasks)
         /\ \A i \in TaskIds :
               task_result[i].kind # "CancelledError" =>
                   final_results[i].kind = "QueryResult")

\* C7 witness: a run with more tasks than slots returned, every task with a
\* QueryResult, some failed and some successful.
C7_Witness ==
    /\ Returned
    /\ Len(tasks) > max_connections
    /\ \A i \in TaskIds : final_results[i].kind = "QueryResult"
    /\ \E i, j \in TaskIds : final_results[i].success /\ fetched[j] = "timeout"

Holding == { i \in TaskIds : tpc[i] \in {"querying", "releasing"} }

\* C8: a task that acquired a connection gives it back exactly once, on
\* success and on failure of its fetch; the connections held are those of
\* the tasks between acquire and release, never more than the pool has, and
\* none once the run returned.
C8_ConnectionReturnedOnce ==
    /\ pool_held <= max_connections
    /\ pool_held = Cardinality(Holding)
    /\ \A i \in TaskIds :
          /\ conn_acquired[i] <= 1
          /\ conn_released[i] = IF i \in Holding THEN 0 ELSE conn_acquired[i]
          /\ (tpc[i] = "done" /\ fetched[i] \in {"rows", "timeout"}) =>
                (conn_acquired[i] = 1 /\ conn_released[i] = 1)
    /\ pc \in {"summary", "approach2", "exit", "fatal"} => pool_held = 0

\* C8 witness: a run returned in which one task's fetch gave rows and
\* another's timed out, both having acquired and released one connection.
C8_Witness ==
    /\ Returned
    /\ pool_held = 0
    /\ \E i, j \in TaskIds :
          /\ fetched[i] = "rows" /\ conn_released[i] = 1
          /\ fetched[j] = "timeout" /\ conn_released[j] = 1

\* C9: while no pool was established main() is before or in connect(), or
\* ended fatally: no period was loaded, no task made, no result produced and
\* no summary printed.
C9_PoolFailureIsFatal ==
    pool = "none" =>
        /\ pc \in {"connect", "fatal"}
        /\ periods = << >>
        /\ tasks = << >>
        /\ final_results = << >>
        /\ printed = 0
        /\ summary = None

\* C9 witness: connect() failed although the sizes were acceptable, and the
\* run ended with the fatal error.
C9_Witness ==
    /\ pc = "fatal"
    /\ pool = "none"
    /\ max_connections >= MinPoolSize

\* C10: the duration_ms of every QueryResult is the time from the instant
\* its task got its semaphore slot to the instant the task finished; the
\* time the task waited for the slot is not in it.
C10_DurationFromSlot ==
    /\ \A i \in TaskIds :
          (tpc[i] = "done" /\ task_result[i].kind = "QueryResult") =>
              task_result[i].duration_ms = (done_at[i][1] - slot_at[i][1]) * MsPerSecond
    /\ Returned =>
          \A i \in TaskIds :
              final_results[i].kind = "QueryResult" =>
                  final_results[i].duration_ms =
                      (done_at[i][1] - slot_at[i][1]) * MsPerSecond

\* C10 witness: a run returned in which a task that waited one tick for its
\* slot failed at once, with duration 0, and another ran for a tick.
C10_Witness ==
    /\ Returned
    /\ \E i, j \in TaskIds :
          /\ slot_at[i] = Some(1)
          /\ fetched[i] = "timeout"
          /\ final_results[i].duration_ms = 0
          /\ final_results[j].success
          /\ final_results[j].duration_ms = MsPerSecond

RECURSIVE SumSeq(_)
SumSeq(seq) == IF seq = << >> THEN 0 ELSE Head(seq) + SumSeq(Tail(seq))

\* The sum of row_count over the successful results of a list.
RowsOfSuccessful(results) ==
    SumSeq([i \in DOMAIN results |->
               IF results[i].success THEN results[i].row_count ELSE 0])

AllSucceeded ==
    \A i \in DOMAIN final_results :
        final_results[i].kind = "QueryResult" /\ final_results[i].success

\* Two periods of one sensor whose intervals have an instant in common.
Overlap(p, q) ==
    /\ p.sensor_id = q.sensor_id
    /\ p.start_time[1] < q.end_time[1]
    /\ q.start_time[1] < p.end_time[1]

NoOverlap ==
    \A i, j \in DOMAIN periods : i # j => ~Overlap(periods[i], periods[j])

\* The joined rows whose measurement lies in the interval of some period of
\* the list, on that period's sensor.
CoveredRows ==
    { sp \in JoinedRows :
        \E k \in DOMAIN periods :
            /\ sp[1].sensor_id = periods[k].sensor_id
            /\ sp[1].measurement_time >= periods[k].start_time[1]
            /\ sp[1].measurement_time < periods[k].end_time[1] }

\* C11: for a list of periods none of which overlaps another on its sensor,
\* and for every batch_size, a run in which every query succeeded returns,
\* per unit as well as batched, results whose row counts sum to the number
\* of joined rows the periods cover; the batched sum is the sum of the
\* counts of the per-unit queries.
C11_CrossStrategyEquivalence ==
    (Returned /\ NoOverlap /\ AllSucceeded) =>
        /\ RowsOfSuccessful(final_results) = Cardinality(CoveredRows)
        /\ RowsOfSuccessful(final_results) =
              SumSeq([k \in DOMAIN periods |->
                         Cardinality(SinglePeriodRows(periods[k]))])

\* C11 witness: a batched run over two distinct periods with rows, which do
\* not overlap, returned with every query successful, after the per-unit run
\* over the same periods.
C11_Witness ==
    /\ Returned
    /\ use_batching
    /\ printed = 1
    /\ NoOverlap
    /\ AllSucceeded
    /\ Len(periods) = 2
    /\ Len(tasks) = 1
    /\ \A k \in DOMAIN periods : Cardinality(SinglePeriodRows(periods[k])) > 0
    /\ RowsOfSuccessful(final_results) > 1

\* The rows the disjunction of the per-period predicates selects, without
\* the bound on the whole batch.
DisjunctionRows(batch) ==
    { sp \in JoinedRows :
        \E p \in Range(batch) :
            /\ sp[1].sensor_id = p.sensor_id
            /\ sp[1].measurement_time >= p.start_time[1]
            /\ sp[1].measurement_time < p.end_time[1] }

\* The query of batch i was built: the batch is not empty and no bound of
\* its periods is None.
Built(i) == use_batching /\ tasks[i] # << >> /\ ~BatchBuildRaises(tasks[i])

\* C12: for every batch of periods with start_time <= end_time, the rows the
\* batch query selects (the disjunction of the per-period predicates and the
\* bound measurement_time in [min_time, max_time)) are the rows the
\* disjunction alone selects, and a task whose fetch gave rows counts them.
C12_RedundantBoundKeepsRows ==
    \A i \in TaskIds :
        Built(i) =>
            /\ BatchRows(tasks[i]) = DisjunctionRows(tasks[i])
            /\ (tpc[i] = "done" /\ fetched[i] = "rows") =>
                  task_result[i].row_count = Cardinality(DisjunctionRows(tasks[i]))

\* C12 witness: a batch of two periods of different sensors returned its
\* rows, the bound on the batch being wider than each of the periods.
C12_Witness ==
    \E i \in TaskIds :
        /\ Built(i)
        /\ tpc[i] = "done"
        /\ fetched[i] = "rows"
        /\ Len(tasks[i]) = 2
        /\ tasks[i][1].sensor_id # tasks[i][2].sensor_id
        /\ task_result[i].row_count > 0
        /\ \A p \in Range(tasks[i]) :
              \/ BatchMinTime(tasks[i]) < p.start_time[1]
              \/ p.end_time[1] < BatchMaxTime(tasks[i])

\* The sum of duration_ms over the successful results of a list.
DurationOfSuccessful(results) ==
    SumSeq([i \in DOMAIN results |->
               IF results[i].success THEN results[i].duration_ms ELSE 0])

\* Lists of up to two results with different row counts and durations.
SampleResults ==
    LET rs == { QueryResult(None, 1, MsPerSecond, TRUE, None),
                QueryResult(None, 2, 3 * MsPerSecond, TRUE, None),
                QueryResult(None, 0, 2 * MsPerSecond, FALSE, Some("")) }
    IN  { << >> } \cup { << r >> : r \in rs } \cup (rs \X rs)

\* What the claim says print_summary reports for a list of QueryResults.
SummaryIsRight(sm, results) ==
    LET ok == { i \in DOMAIN results : results[i].success }
    IN  /\ sm.total = Len(results)
        /\ sm.successful = Cardinality(ok)
        /\ sm.successful + sm.failed = sm.total
        /\ sm.total_rows = RowsOfSuccessful(results)
        /\ sm.total_duration = DurationOfSuccessful(results)
        /\ sm.avg_duration[2] # 0
        /\ ok = {} =>
              /\ sm.successful = 0
              /\ sm.total_rows = 0
              /\ sm.avg_duration[1] = 0
              /\ sm.min_duration = None
              /\ sm.max_duration = None
        /\ ok # {} =>
              /\ sm.avg_duration = << DurationOfSuccessful(results), Cardinality(ok) >>
              /\ \E i \in ok : sm.min_duration = Some(results[i].duration_ms)
              /\ \A i \in ok : sm.min_duration[1] <= results[i].duration_ms
              /\ \A i \in ok : sm.max_duration[1] >= results[i].duration_ms

\* C13: the summary print_summary printed for the returned list has total
\* rows and total duration summed over the successful results only and
\* successful + failed = total; for a list with no successful result, the
\* empty list included, it has successful = 0, total rows = 0 and an average
\* of 0, with no division by zero and no min or max of nothing.
C13_SummaryOverSuccessful ==
    /\ summary # None => SummaryIsRight(summary[1], final_results)
    /\ \A results \in SampleResults :
          ~SummaryRaises(results) /\ SummaryIsRight(Summary(results), results)

\* C13 witness: the summary of a run of several tasks, all failed, was
\* printed.
C13_Witness ==
    /\ summary # None
    /\ Len(final_results) > 1
    /\ \A i \in DOMAIN final_results : ~final_results[i].success
    /\ summary[1].failed = Len(final_results)

\* Task i has sent its query to the backend.
Issued(i) == tpc[i] \in {"querying", "releasing"} \/ fetched[i] \in FetchEnds

\* C14: no value of a period is part of a query text: the per-unit queries
\* of a run all have one text, and the batch queries of two batches with the
\* same number of periods have the same text, whatever the sensor_id,
\* start_time and end_time of their periods.
C14_ValuesNeverInQueryText ==
    \A i, j \in TaskIds :
        (Issued(i) /\ Issued(j)) =>
            IF use_batching
            THEN Len(tasks[i]) = Len(tasks[j]) =>
                    BatchQueryText(tasks[i]) = BatchQueryText(tasks[j])
            ELSE SinglePeriodQueryText(tasks[i][1]) = SinglePeriodQueryText(tasks[j][1])

\* The period of per-unit task i has start_time = end_time.
EmptyInterval(i) ==
    /\ ~use_batching
    /\ tasks[i][1].start_time # None
    /\ tasks[i][1].start_time = tasks[i][1].end_time

\* C15: a per-unit task for a period with start_time = end_time returns, once
\* the backend answered its query, a QueryResult with row_count = 0 and
\* success = True, whatever the table holds; no outcome of such a task
\* counts a row.
C15_EmptyIntervalNoRows ==
    \A i \in TaskIds :
        (EmptyInterval(i) /\ tpc[i] = "done") =>
            /\ task_result[i].row_count = 0
            /\ fetched[i] = "rows" =>
                  /\ task_result[i].kind = "QueryResult"
                  /\ task_result[i].period = Some(tasks[i][1])
                  /\ task_result[i].success
                  /\ task_result[i].error = None
            /\ Returned => final_results[i].row_count = 0

\* C15 witness: the query of a period with start_time = end_time was
\* answered, the table holding a joined row of that sensor at that very
\* instant.
C15_Witness ==
    \E i \in TaskIds :
        /\ EmptyInterval(i)
        /\ tpc[i] = "done"
        /\ fetched[i] = "rows"
        /\ task_result[i].success
        /\ \E sp \in JoinedRows :
              /\ sp[1].sensor_id = tasks[i][1].sensor_id
              /\ sp[1].measurement_time = tasks[i][1].start_time[1]

\* C16: every task is Pending (no slot, no connection, no result), Running
\* (it has its slot and no result yet) or in one terminal state, Succeeded
\* or Failed, with the one result it keeps; it acquires at most one
\* connection, so sends at most one query; and the returned list holds one
\* QueryResult for it.
C16_TaskStateMachine ==
    \A i \in TaskIds :
        /\ conn_acquired[i] <= 1
        /\ tpc[i] = "pending" =>
              /\ task_result[i] = NoResult
              /\ slot_at[i] = None
              /\ conn_acquired[i] = 0
        /\ i \in InFlight =>
              /\ task_result[i] = NoResult
              /\ slot_at[i] # None
        /\ tpc[i] = "done" =>
              /\ slot_at[i] # None
              /\ task_result[i].kind \in {"QueryResult", "Exception"}
        /\ Returned =>
              /\ tpc[i] = "done"
              /\ final_results[i].kind = "QueryResult"
              /\ final_results[i].success <=> (task_result[i].kind = "QueryResult"
                                                 /\ task_result[i].success)

RECURSIVE Concat(_)
Concat(seqs) == IF seqs = << >> THEN << >> ELSE Head(seqs) \o Concat(Tail(seqs))

\* C17: the batches of a batched run, concatenated in order, are the list of
\* periods; no batch is empty, every batch but the last has batch_size
\* periods and the last has at most batch_size.
C17_BatchesPartition ==
    use_batching =>
        /\ Concat(tasks) = periods
        /\ \A b \in TaskIds :
              /\ Len(tasks[b]) >= 1
              /\ Len(tasks[b]) <= batch_size
              /\ b < Len(tasks) => Len(tasks[b]) = batch_size

\* C17 witness: three periods were split with batch_size 2 into a full batch
\* and a last batch of one period.
C17_Witness ==
    /\ pc = "gather"
    /\ use_batching
    /\ batch_size = 2
    /\ Len(periods) = 3
    /\ Len(tasks) = 2
    /\ Len(tasks[1]) = 2
    /\ Len(tasks[2]) = 1

\* C18: the list a per-unit run returns has at every position i a
\* QueryResult, successful or failed, whose period is the i-th period of the
\* input; the QueryResults of a batched run have no period.
C18_PeriodOfOutcome ==
    Returned =>
        \A i \in TaskIds :
            IF use_batching
            THEN final_results[i].kind = "QueryResult" => final_results[i].period = None
            ELSE /\ final_results[i].kind = "QueryResult"
                 /\ final_results[i].period = Some(periods[i])

\* The semaphore slots taken, and the connections task i holds.
SlotsHeld == max_connections - semaphore
ConnsHeldBy(i) == conn_acquired[i] - conn_released[i]

\* C19: during a run the connections held are at most the semaphore slots
\* held, which are at most max_connections; a task holds at most one
\* connection and only with a slot; a task that awaits pool.acquire() finds
\* a free connection; a Pending task has taken no connection and sent no
\* query.
C19_ConnectionsWithinSlots ==
    pc = "gather" =>
        /\ pool_held <= SlotsHeld
        /\ SlotsHeld <= max_connections
        /\ SlotsHeld = Cardinality(InFlight)
        /\ \A i \in TaskIds :
              /\ ConnsHeldBy(i) \in {0, 1}
              /\ ConnsHeldBy(i) = 1 => i \in InFlight
              /\ tpc[i] = "acquiring" => pool_held < max_connections
              /\ tpc[i] = "pending" => (conn_acquired[i] = 0 /\ fetched[i] = "none")

\* C19 witness: every slot is taken, all but one of the slot holders hold a
\* connection, the last one awaits pool.acquire(), and a task is Pending.
C19_Witness ==
    /\ pc = "gather"
    /\ semaphore = 0
    /\ pool_held = max_connections - 1
    /\ \E i, j \in TaskIds : tpc[i] = "acquiring" /\ tpc[j] = "pending"

\* process_all_periods_parallel has returned and no later call of it began.
AfterRun == tasks # << >> /\ pc \in {"summary", "approach2", "exit", "fatal"}

\* C20: once process_all_periods_parallel returned, also with failed tasks,
\* no task of the run is Pending or Running, every semaphore slot and every
\* connection was given back, and so nothing of the run is in flight when
\* main() begins the next run.
C20_NothingLeftBehind ==
    AfterRun =>
        /\ \A i \in TaskIds :
              /\ tpc[i] = "done"
              /\ task_result[i] # NoResult
              /\ conn_acquired[i] = conn_released[i]
        /\ InFlight = {}
        /\ semaphore = max_connections
        /\ pool_held = 0

\* C20 witness: main() is about to begin the batched run after a per-unit
\* run with more tasks than slots, in which a task could not get a
\* connection, another timed out and a third returned rows.
C20_Witness ==
    /\ pc = "approach2"
    /\ printed = 1
    /\ Len(tasks) > max_connections
    /\ semaphore = max_connections
    /\ \E i, j, k \in TaskIds :
          /\ fetched[i] = "error"
          /\ fetched[j] = "timeout"
          /\ fetched[k] = "rows"

====
